---- MODULE Spec2Model ----
(***************************************************************************)
(* LinguistAI: the App component (src/App.tsx) as a state machine.         *)
(*                                                                         *)
(* State is the component's useState/useRef cells, the localStorage record *)
(* 'linguist_history', the wall clock read by Date.now(), the timers armed *)
(* with setTimeout and the generation calls that are awaiting an answer.   *)
(* A handler that awaits keeps the values of the render it was created in  *)
(* (history, sourceLang, targetLang, selectedModel, ...): these are the    *)
(* "closure" fields carried by timers and calls.                           *)
(***************************************************************************)
EXTENDS Integers, Sequences, FiniteSets, TLC

(* ------------------------------------------------------------------ *)
(* Bounds of the exploration                                           *)
(* ------------------------------------------------------------------ *)
MaxEvents == 3
\* length of the short log a session may start from
OldLen == 3

(* ------------------------------------------------------------------ *)
(* Program constants                                                   *)
(* ------------------------------------------------------------------ *)
HistoryCap == 50

VARIATIONS == "VARIATIONS"
CONTEXT == "CONTEXT"
PARAPHRASE == "PARAPHRASER"
AppMode == {VARIATIONS, CONTEXT, PARAPHRASE}

ModelType == {"fast", "accurate"}

\* a sample of SUPPORTED_LANGUAGES: the two codes the component starts with
LangCodes == {"it", "en"}

\* the detail that goes to the console, shown to the user instead
LoggedDetail == "Error generating variations:"

GenericError == "Something went wrong. Please try again."

\* JavaScript's null / undefined
Null == [kind |-> "null"]

(* ------------------------------------------------------------------ *)
(* Texts are sequences of characters                                   *)
(* ------------------------------------------------------------------ *)
SP == " "
Empty == <<>>
Blank == <<SP>>

RECURSIVE TrimStart(_)
TrimStart(s) == IF s # <<>> /\ Head(s) = SP THEN TrimStart(Tail(s)) ELSE s

RECURSIVE TrimEnd(_)
TrimEnd(s) ==
    IF s # <<>> /\ s[Len(s)] = SP THEN TrimEnd(SubSeq(s, 1, Len(s) - 1)) ELSE s

\* a trim that strips nothing
TrimNone(s) == s

\* String.prototype.trim
Trim(s) == TrimEnd(TrimStart(s))

\* values typed into a paraphrase pane
KeyTexts == {Empty, Blank, <<"a">>, <<"a", "b">>}
\* values typed into the standard input area
InputTexts == {Empty, Blank, <<"c">>}

(* ------------------------------------------------------------------ *)
(* Array helpers                                                       *)
(* ------------------------------------------------------------------ *)
Min(a, b) == IF a < b THEN a ELSE b

\* Array.prototype.slice(0, n)
SliceFromStart(s, n) == SubSeq(s, 1, Min(n, Len(s)))

RECURSIVE FilterInverted(_, _)
\* a filter whose test is inverted: item.id === id
FilterInverted(s, id) ==
    IF s = <<>> THEN <<>>
    ELSE IF Head(s).id = id THEN <<Head(s)>> \o FilterInverted(Tail(s), id)
    ELSE FilterInverted(Tail(s), id)

RECURSIVE Filter(_, _)
\* history.filter(item => item.id !== id)
Filter(s, id) ==
    IF s = <<>> THEN <<>>
    ELSE IF Head(s).id # id THEN <<Head(s)>> \o Filter(Tail(s), id)
    ELSE Filter(Tail(s), id)

(* ------------------------------------------------------------------ *)
(* localStorage record 'linguist_history'                              *)
(* ------------------------------------------------------------------ *)
\* a stored string that JSON.parse rejects
Garbage == [kind |-> "garbage"]

JSONstringify(v) == [kind |-> "json", value |-> v]
CanParse(s) == s.kind = "json"
JSONparse(s) == s.value

\* a mount effect without the try/catch: the parse error ends it
loadEffectUncaught(rec, cur) ==
    IF rec = Null THEN [completed |-> TRUE, history |-> cur]
    ELSE IF CanParse(rec) THEN [completed |-> TRUE, history |-> JSONparse(rec)]
    ELSE [completed |-> FALSE, history |-> cur]

\* the mount effect on record rec, with cur in memory: whether it runs to its end,
\* and what it leaves in memory
loadEffect(rec, cur) ==
    IF rec = Null THEN [completed |-> TRUE, history |-> cur]
    ELSE IF CanParse(rec) THEN [completed |-> TRUE, history |-> JSONparse(rec)]
    ELSE [completed |-> TRUE, history |-> cur]     \* the parse error is caught

\* what a load of record rec yields in a fresh component
LoadOf(rec) == loadEffect(rec, <<>>).history


(* ------------------------------------------------------------------ *)
(* History items                                                       *)
(* ------------------------------------------------------------------ *)
\* Date.now().toString()
IdOf(t) == ToString(t)

VariationItem(t, sl, tl, text, model, res) ==
    [id |-> IdOf(t), timestamp |-> t, mode |-> VARIATIONS, sourceLang |-> sl,
     targetLang |-> tl, inputText |-> text, modelType |-> model,
     variationResults |-> res]

ContextItem(t, sl, tl, text, model, res) ==
    [id |-> IdOf(t), timestamp |-> t, mode |-> CONTEXT, sourceLang |-> sl,
     targetLang |-> tl, inputText |-> text, modelType |-> model,
     contextResults |-> res]

ParaphraseItem(t, sl, tl, text, model, direction, translated) ==
    [id |-> IdOf(t), timestamp |-> t, mode |-> PARAPHRASE, sourceLang |-> sl,
     targetLang |-> tl, inputText |-> text, modelType |-> model,
     paraphraseResult |->
        [sourceText |-> IF direction = "leftToRight" THEN text ELSE translated,
         targetText |-> IF direction = "leftToRight" THEN translated ELSE text]]

\* an item saved before the model tier existed: modelType is optional
WithoutModelType(item) == [f \in DOMAIN item \ {"modelType"} |-> item[f]]

\* an item written by an earlier session at time t
OldItem(t) ==
    IF t % 3 = 0
      THEN WithoutModelType(
              VariationItem(t, "it", "en", <<"c">>, "fast", <<"v1", "v2">>))
    ELSE IF t % 3 = 1 THEN ContextItem(t, "en", "it", <<"c">>, "accurate",
                               <<[original |-> "o1", translated |-> "t1"]>>)
    ELSE ParaphraseItem(t, "en", "it", <<"a">>, "fast", "leftToRight", <<"t">>)

\* the log an earlier session left behind: n items, newest first
OldLog(n) == [i \in 1..n |-> OldItem(n + 1 - i)]

\* the records the component may find at mount: none, an unreadable one, a short log
InitialRecords == {Null, Garbage, JSONstringify(OldLog(OldLen))}

\* a log filled to the cap
FullRecords == {JSONstringify(OldLog(HistoryCap))}

\* first reading of the clock in this session: later than every stored item
FirstNow == HistoryCap + 1

(* ------------------------------------------------------------------ *)
(* State                                                               *)
(* ------------------------------------------------------------------ *)
VARIABLES
    mounted,            \* the mount effects have run
    mode, sourceLang, targetLang, selectedModel,
    inputText, loading, variationResults, contextResults,
    paraLeftText, paraRightText, isTypingLeft, isTypingRight, isTranslatingPara,
    error, history,
    store,              \* localStorage['linguist_history']
    now,                \* Date.now()
    timers,             \* timers armed with setTimeout and not yet fired or cleared
    typingTimeoutRef,   \* typingTimeoutRef.current
    calls,              \* generation calls awaiting the endpoint's answer
    nEvents,            \* how many user events so far
    lastOp,             \* the handler that ran last
    record0,            \* the record found at mount
    appended,           \* the items passed to saveToHistory, newest first
    pruned,             \* a delete or a confirmed clear has run
    lastKey,            \* the last keystroke in a paraphrase pane
    burst               \* keystrokes since the debounce timer was last idle

uiVars == <<mode, sourceLang, targetLang, selectedModel, inputText, loading,
            variationResults, contextResults, paraLeftText, paraRightText,
            isTypingLeft, isTypingRight, isTranslatingPara, error>>
vars == <<mounted, uiVars, history, store, now, timers, typingTimeoutRef, calls,
          nEvents, lastOp, record0, appended, pruned, lastKey, burst>>

InitFrom(records) ==
    /\ mounted = FALSE
    /\ mode = VARIATIONS
    /\ sourceLang = "it"
    /\ targetLang = "en"
    /\ selectedModel = "fast"
    /\ inputText = Empty
    /\ loading = FALSE
    /\ variationResults = <<>>
    /\ contextResults = <<>>
    /\ paraLeftText = Empty
    /\ paraRightText = Empty
    /\ isTypingLeft = FALSE
    /\ isTypingRight = FALSE
    /\ isTranslatingPara = FALSE
    /\ error = Null
    /\ history = <<>>
    /\ store \in records
    /\ now = FirstNow
    /\ timers = {}
    /\ typingTimeoutRef = Null
    /\ calls = {}
    /\ nEvents = 0
    /\ lastOp = "init"
    /\ record0 = store
    /\ appended = <<>>
    /\ pruned = FALSE
    /\ lastKey = [h |-> 0, text |-> Empty, side |-> "none"]
    /\ burst = 0

Init == InitFrom(InitialRecords)
InitFull == InitFrom(FullRecords)

(* ------------------------------------------------------------------ *)
(* Mount effect and the clock                                           *)
(* ------------------------------------------------------------------ *)
\* useEffect(() => { ...getItem('linguist_history')... }, [])
LoadHistory ==
    /\ ~mounted
    /\ mounted' = loadEffect(store, history).completed
    /\ history' = loadEffect(store, history).history
    /\ lastOp' = "load"
    /\ UNCHANGED <<uiVars, store, now, timers, typingTimeoutRef, calls,
                   nEvents>>
    /\ UNCHANGED <<record0, appended, pruned, lastKey, burst>>

\* what Date.now() may return: the last reading, or a later one
Readings == {now, now + 1}

(* ------------------------------------------------------------------ *)
(* History store                                                       *)
(* ------------------------------------------------------------------ *)
\* a new list with the item put at the end
UpdatedAtTail(item, h) == SliceFromStart(h \o <<item>>, HistoryCap)

\* a new list that is never truncated
UpdatedNoCap(item, h) == <<item>> \o h

\* saveToHistory's new list, from the history of the render the caller closed over
Updated(item, h) == SliceFromStart(<<item>> \o h, HistoryCap)

\* a saveToHistory that forgets localStorage.setItem
saveToHistoryUnpersisted(item, h) ==
    /\ history' = Updated(item, h)
    /\ UNCHANGED store

\* const saveToHistory = (item) => {...}
saveToHistory(item, h) ==
    /\ history' = Updated(item, h)
    /\ store' = JSONstringify(Updated(item, h))

\* ids a delete may be asked for: a few of the listed items, and one not listed
DeleteIds == {history[i].id : i \in {1, Len(history)} \cap DOMAIN history}
                \cup {IdOf(0)}

handleDeleteHistoryItem(id) ==
    /\ mounted
    /\ nEvents < MaxEvents
    /\ nEvents' = nEvents + 1
    /\ history' = Filter(history, id)
    /\ store' = JSONstringify(Filter(history, id))
    /\ pruned' = TRUE
    /\ lastOp' = "delete"
    /\ UNCHANGED <<mounted, uiVars, now, timers, typingTimeoutRef, calls>>
    /\ UNCHANGED <<record0, appended, lastKey, burst>>

\* a clear that forgets localStorage.removeItem
handleClearHistoryKeepsRecord(confirmed) ==
    /\ mounted
    /\ Len(history) > 0
    /\ nEvents < MaxEvents
    /\ nEvents' = nEvents + 1
    /\ IF confirmed
         THEN /\ history' = <<>>
              /\ pruned' = TRUE
              /\ lastOp' = "clear"
              /\ UNCHANGED store
         ELSE /\ UNCHANGED <<history, store, pruned>>
              /\ lastOp' = "clearDeclined"
    /\ UNCHANGED <<mounted, uiVars, now, timers, typingTimeoutRef, calls>>
    /\ UNCHANGED <<record0, appended, lastKey, burst>>

\* confirmed: the answer to confirm('Are you sure ...')
handleClearHistory(confirmed) ==
    /\ mounted
    /\ Len(history) > 0          \* the button is rendered for a non-empty list
    /\ nEvents < MaxEvents
    /\ nEvents' = nEvents + 1
    /\ IF confirmed
         THEN /\ history' = <<>>
              /\ store' = Null
              /\ pruned' = TRUE
              /\ lastOp' = "clear"
         ELSE /\ UNCHANGED <<history, store, pruned>>
              /\ lastOp' = "clearDeclined"
    /\ UNCHANGED <<mounted, uiVars, now, timers, typingTimeoutRef, calls>>
    /\ UNCHANGED <<record0, appended, lastKey, burst>>

\* items the user may click in the sidebar
RestoreItems == {history[i] : i \in {1, 2, 3} \cap DOMAIN history}

\* a restore that leaves the other mode's result list as it is
handleRestoreHistoryItemKeepsOther(item) ==
    /\ mounted
    /\ nEvents < MaxEvents
    /\ nEvents' = nEvents + 1
    /\ mode' = item.mode
    /\ sourceLang' = item.sourceLang
    /\ targetLang' = item.targetLang
    /\ error' = Null
    /\ selectedModel' = IF "modelType" \in DOMAIN item THEN item.modelType
                        ELSE selectedModel
    /\ IF item.mode = VARIATIONS /\ "variationResults" \in DOMAIN item
         THEN /\ inputText' = item.inputText
              /\ variationResults' = item.variationResults
              /\ UNCHANGED <<contextResults, paraLeftText, paraRightText>>
         ELSE IF item.mode = CONTEXT /\ "contextResults" \in DOMAIN item
         THEN /\ inputText' = item.inputText
              /\ contextResults' = item.contextResults
              /\ UNCHANGED <<variationResults, paraLeftText, paraRightText>>
         ELSE IF item.mode = PARAPHRASE /\ "paraphraseResult" \in DOMAIN item
         THEN /\ paraLeftText' = item.paraphraseResult.sourceText
              /\ paraRightText' = item.paraphraseResult.targetText
              /\ UNCHANGED <<inputText, variationResults, contextResults>>
         ELSE UNCHANGED <<inputText, variationResults, contextResults,
                          paraLeftText, paraRightText>>
    /\ lastOp' = "restore"
    /\ UNCHANGED <<mounted, loading, isTypingLeft, isTypingRight, isTranslatingPara,
                   history, store, now, timers, typingTimeoutRef, calls>>
    /\ UNCHANGED <<record0, appended, pruned, lastKey, burst>>

handleRestoreHistoryItem(item) ==
    /\ mounted
    /\ nEvents < MaxEvents
    /\ nEvents' = nEvents + 1
    /\ mode' = item.mode
    /\ sourceLang' = item.sourceLang
    /\ targetLang' = item.targetLang
    /\ error' = Null
    /\ selectedModel' = IF "modelType" \in DOMAIN item THEN item.modelType
                        ELSE selectedModel
    /\ IF item.mode = VARIATIONS /\ "variationResults" \in DOMAIN item
         THEN /\ inputText' = item.inputText
              /\ variationResults' = item.variationResults
              /\ contextResults' = <<>>
              /\ UNCHANGED <<paraLeftText, paraRightText>>
         ELSE IF item.mode = CONTEXT /\ "contextResults" \in DOMAIN item
         THEN /\ inputText' = item.inputText
              /\ contextResults' = item.contextResults
              /\ variationResults' = <<>>
              /\ UNCHANGED <<paraLeftText, paraRightText>>
         ELSE IF item.mode = PARAPHRASE /\ "paraphraseResult" \in DOMAIN item
         THEN /\ paraLeftText' = item.paraphraseResult.sourceText
              /\ paraRightText' = item.paraphraseResult.targetText
              /\ UNCHANGED <<inputText, variationResults, contextResults>>
         ELSE UNCHANGED <<inputText, variationResults, contextResults,
                          paraLeftText, paraRightText>>
    /\ lastOp' = "restore"
    /\ UNCHANGED <<mounted, loading, isTypingLeft, isTypingRight, isTranslatingPara,
                   history, store, now, timers, typingTimeoutRef, calls>>
    /\ UNCHANGED <<record0, appended, pruned, lastKey, burst>>


(* ------------------------------------------------------------------ *)
(* Settings and view shell                                             *)
(* ------------------------------------------------------------------ *)
setSourceLang(l) ==
    /\ mounted
    /\ nEvents < MaxEvents
    /\ nEvents' = nEvents + 1
    /\ sourceLang' = l
    /\ lastOp' = "setSourceLang"
    /\ UNCHANGED <<mounted, mode, targetLang, selectedModel, inputText, loading,
                   variationResults, contextResults, paraLeftText, paraRightText,
                   isTypingLeft, isTypingRight, isTranslatingPara, error,
                   history, store, now, timers, typingTimeoutRef, calls>>
    /\ UNCHANGED <<record0, appended, pruned, lastKey, burst>>

setTargetLang(l) ==
    /\ mounted
    /\ nEvents < MaxEvents
    /\ nEvents' = nEvents + 1
    /\ targetLang' = l
    /\ lastOp' = "setTargetLang"
    /\ UNCHANGED <<mounted, mode, sourceLang, selectedModel, inputText, loading,
                   variationResults, contextResults, paraLeftText, paraRightText,
                   isTypingLeft, isTypingRight, isTranslatingPara, error,
                   history, store, now, timers, typingTimeoutRef, calls>>
    /\ UNCHANGED <<record0, appended, pruned, lastKey, burst>>

setSelectedModel(m) ==
    /\ mounted
    /\ nEvents < MaxEvents
    /\ nEvents' = nEvents + 1
    /\ selectedModel' = m
    /\ lastOp' = "setSelectedModel"
    /\ UNCHANGED <<mounted, mode, sourceLang, targetLang, inputText, loading,
                   variationResults, contextResults, paraLeftText, paraRightText,
                   isTypingLeft, isTypingRight, isTranslatingPara, error,
                   history, store, now, timers, typingTimeoutRef, calls>>
    /\ UNCHANGED <<record0, appended, pruned, lastKey, burst>>

\* the standard view's textarea (and its clear button, which sets '')
setInputText(t) ==
    /\ mounted
    /\ mode # PARAPHRASE
    /\ nEvents < MaxEvents
    /\ nEvents' = nEvents + 1
    /\ inputText' = t
    /\ lastOp' = "setInputText"
    /\ UNCHANGED <<mounted, mode, sourceLang, targetLang, selectedModel, loading,
                   variationResults, contextResults, paraLeftText, paraRightText,
                   isTypingLeft, isTypingRight, isTranslatingPara, error,
                   history, store, now, timers, typingTimeoutRef, calls>>
    /\ UNCHANGED <<record0, appended, pruned, lastKey, burst>>

\* a mode button: setMode(m); resetResults()
SwitchMode(m) ==
    /\ mounted
    /\ nEvents < MaxEvents
    /\ nEvents' = nEvents + 1
    /\ mode' = m
    /\ variationResults' = <<>>
    /\ contextResults' = <<>>
    /\ paraLeftText' = Empty
    /\ paraRightText' = Empty
    /\ error' = Null
    /\ lastOp' = "switchMode"
    /\ UNCHANGED <<mounted, sourceLang, targetLang, selectedModel, inputText, loading,
                   isTypingLeft, isTypingRight, isTranslatingPara,
                   history, store, now, timers, typingTimeoutRef, calls>>
    /\ UNCHANGED <<record0, appended, pruned, lastKey, burst>>

\* the values handleSwapLanguages sets, from the current ones
SwappedLeft == IF mode = PARAPHRASE THEN paraRightText ELSE paraLeftText
\* a swap written without the temporary: the right pane keeps its text
SwappedRightNoTemp == paraRightText

SwappedRight == IF mode = PARAPHRASE THEN paraLeftText ELSE paraRightText

handleSwapLanguages ==
    /\ mounted
    /\ nEvents < MaxEvents
    /\ nEvents' = nEvents + 1
    /\ sourceLang' = targetLang
    /\ targetLang' = sourceLang
    /\ paraLeftText' = SwappedLeft
    /\ paraRightText' = SwappedRight
    /\ lastOp' = "swap"
    /\ UNCHANGED <<mounted, mode, selectedModel, inputText, loading,
                   variationResults, contextResults,
                   isTypingLeft, isTypingRight, isTranslatingPara, error,
                   history, store, now, timers, typingTimeoutRef, calls>>
    /\ UNCHANGED <<record0, appended, pruned, lastKey, burst>>

(* ------------------------------------------------------------------ *)
(* Generation client                                                   *)
(* ------------------------------------------------------------------ *)
Str(s) == [kind |-> "string", chars |-> s]
Throws == [kind |-> "throw"]
Response(text) == [kind |-> "response", text |-> text]

\* a falsy response.text: undefined or ''
Falsy(text) == text.kind = "null" \/ (text.kind = "string" /\ text.chars = <<>>)

Return(v) == [ok |-> TRUE, value |-> v]
Rejected == [ok |-> FALSE]

\* a client without the "{}" default: a missing response text goes to JSON.parse
parseListFieldNoDefault(answer, field) ==
    IF answer.kind = "throw" THEN Rejected
    ELSE IF ~CanParse(answer.text) THEN Rejected
    ELSE LET j == JSONparse(answer.text)
         IN  IF j.kind = "null" THEN Rejected
             ELSE IF field \in DOMAIN j /\ j[field].kind # "null"
                  THEN Return(j[field].items)
                  ELSE Return(<<>>)

\* generateVariations / generateContextExamples, given the endpoint's answer:
\* JSON.parse(response.text || "{}")[field] || []
parseListField(answer, field) ==
    IF answer.kind = "throw" THEN Rejected
    ELSE LET text == IF Falsy(answer.text)
                       THEN JSONstringify([kind |-> "object"])
                       ELSE answer.text
         IN  IF ~CanParse(text) THEN Rejected
             ELSE LET j == JSONparse(text)
                  IN  IF j.kind = "null" THEN Rejected   \* TypeError on null.field
                      ELSE IF field \in DOMAIN j /\ j[field].kind # "null"
                           THEN Return(j[field].items)
                           ELSE Return(<<>>)

generateVariations(answer) == parseListField(answer, "variations")
generateContextExamples(answer) == parseListField(answer, "examples")

\* a client whose catch block swallows the exception and returns ''
plainTextSwallows(answer) ==
    IF answer.kind = "throw" THEN Return(Empty)
    ELSE IF answer.text.kind = "null" THEN Return(Empty)
    ELSE Return(Trim(answer.text.chars))

\* simpleTranslate / rephraseText: response.text?.trim() || ""
plainText(answer) ==
    IF answer.kind = "throw" THEN Rejected
    ELSE IF answer.text.kind = "null" THEN Return(Empty)
    ELSE Return(Trim(answer.text.chars))

simpleTranslate(answer) == plainText(answer)
rephraseText(answer) == plainText(answer)

Array(items) == [kind |-> "array", items |-> items]

\* answers of the endpoint to a structured request
ListAnswers(field, items) ==
    {Throws, Response(Null), Response(Str(<<>>)), Response(Garbage),
     Response(JSONstringify(Null)),
     Response(JSONstringify([kind |-> "object"])),
     Response(JSONstringify([kind |-> "object"] @@ (field :> Null))),
     Response(JSONstringify([kind |-> "object"] @@ (field :> Array(<<>>)))),
     Response(JSONstringify([kind |-> "object"] @@ (field :> Array(items))))}

VariationAnswers == ListAnswers("variations", <<"v3", "v4">>)
ContextAnswers ==
    ListAnswers("examples", <<[original |-> "o2", translated |-> "t2"]>>)

\* answers of the endpoint to a plain-text request
TranslateAnswers == {Throws, Response(Null), Response(Str(<<SP, "t">>))}
RephraseAnswers == {Throws, Response(Str(Blank)), Response(Str(<<"r", SP>>))}


(* ------------------------------------------------------------------ *)
(* Requests sent to the endpoint                                       *)
(* ------------------------------------------------------------------ *)
\* an older client: one MODEL_NAME for every request
getModelNameSingle(type) == "gemini-3-pro-preview"

getModelName(type) ==
    IF type = "accurate" THEN "gemini-3-pro-preview" ELSE "gemini-2.5-flash"

\* SUPPORTED_LANGUAGES.find(l => l.code === code)?.name || code
LanguageName(code) ==
    IF code = "it" THEN "Italian" ELSE IF code = "en" THEN "English" ELSE code

\* a sample of ParaphraseTone
ParaphraseTone == {"Standard", "Formal"}

\* the argument of ai.models.generateContent in each client function; the
\* prompt is the template's name and the values interpolated into it
VariationsRequest(sLang, tLang, text, modelType) ==
    [model |-> getModelName(modelType),
     contents |-> <<"variations", sLang, tLang, text>>,
     config |-> [responseMimeType |-> "application/json",
                 required |-> "variations"]]

ContextRequest(sLang, tLang, word, modelType) ==
    [model |-> getModelName(modelType),
     contents |-> <<"context", sLang, tLang, word>>,
     config |-> [responseMimeType |-> "application/json",
                 required |-> "examples"]]

TranslateRequest(sLang, tLang, text, modelType) ==
    [model |-> getModelName(modelType),
     contents |-> <<"translate", sLang, tLang, text>>,
     config |-> Null]

RephraseRequest(language, text, tone, modelType) ==
    [model |-> getModelName(modelType),
     contents |-> <<"rephrase", language, text, tone>>,
     config |-> Null]

\* the request the handler that issued call c sends, with tone selected for the
\* rephrased pane
RequestOf(c, tone) ==
    LET sLangName == LanguageName(c.sourceLang)
        tLangName == LanguageName(c.targetLang)
    IN  IF c.kind = "variations"
          THEN VariationsRequest(sLangName, tLangName, c.text, c.selectedModel)
        ELSE IF c.kind = "context"
          THEN ContextRequest(sLangName, tLangName, c.text, c.selectedModel)
        ELSE IF c.kind = "translate"
          THEN IF c.side = "leftToRight"
                 THEN TranslateRequest(sLangName, tLangName, c.text, c.selectedModel)
                 ELSE TranslateRequest(tLangName, sLangName, c.text, c.selectedModel)
        ELSE RephraseRequest(IF c.side = "left" THEN sLangName ELSE tLangName,
                             c.text, tone, c.selectedModel)

\* what the client function awaited by call c returns for the endpoint's answer
OutcomeOf(c, answer) ==
    IF c.kind = "variations" THEN generateVariations(answer)
    ELSE IF c.kind = "context" THEN generateContextExamples(answer)
    ELSE IF c.kind = "translate" THEN simpleTranslate(answer)
    ELSE rephraseText(answer)

\* the answers the endpoint may give to call c
AnswersOf(c) ==
    IF c.kind = "variations" THEN VariationAnswers
    ELSE IF c.kind = "context" THEN ContextAnswers
    ELSE IF c.kind = "translate" THEN TranslateAnswers
    ELSE RephraseAnswers

(* ------------------------------------------------------------------ *)
(* Manual generation (Variations and Context)                          *)
(* ------------------------------------------------------------------ *)
\* the part of handleStandardTranslate that runs before the await
handleStandardTranslate ==
    IF Trim(inputText) = Empty
      THEN UNCHANGED <<uiVars, calls>>
      ELSE /\ loading' = TRUE
           /\ error' = Null
           /\ variationResults' = <<>>
           /\ contextResults' = <<>>
           /\ calls' = calls \cup
                {[cid |-> nEvents + 1,
                  kind |-> IF mode = VARIATIONS THEN "variations" ELSE "context",
                  text |-> inputText, side |-> "none",
                  sourceLang |-> sourceLang, targetLang |-> targetLang,
                  selectedModel |-> selectedModel, hist |-> history]}
           /\ UNCHANGED <<mode, sourceLang, targetLang, selectedModel, inputText,
                          paraLeftText, paraRightText, isTypingLeft, isTypingRight,
                          isTranslatingPara>>

\* the Translate / Generate button: disabled={loading || !inputText.trim()}
ClickTranslate ==
    /\ mounted
    /\ mode # PARAPHRASE
    /\ ~loading
    /\ Trim(inputText) # Empty
    /\ nEvents < MaxEvents
    /\ nEvents' = nEvents + 1
    /\ handleStandardTranslate
    /\ lastOp' = "clickTranslate"
    /\ UNCHANGED <<mounted, history, store, now, timers, typingTimeoutRef>>
    /\ UNCHANGED <<record0, appended, pruned, lastKey, burst>>

\* modifier+Enter in the input area
handleKeyDownStandard ==
    /\ mounted
    /\ mode # PARAPHRASE
    /\ nEvents < MaxEvents
    /\ nEvents' = nEvents + 1
    /\ handleStandardTranslate
    /\ lastOp' = "keyDownStandard"
    /\ UNCHANGED <<mounted, history, store, now, timers, typingTimeoutRef>>
    /\ UNCHANGED <<record0, appended, pruned, lastKey, burst>>

\* the item handleStandardTranslate saves at time t for call c and result list res
StandardItem(c, res, t) ==
    IF c.kind = "variations"
      THEN VariationItem(t, c.sourceLang, c.targetLang, c.text, c.selectedModel, res)
      ELSE ContextItem(t, c.sourceLang, c.targetLang, c.text, c.selectedModel, res)

\* a completion without the finally block: loading is reset on success only
StandardResumedNoFinally(c, result, t) ==
    /\ calls' = calls \ {c}
    /\ IF result.ok
         THEN /\ IF c.kind = "variations"
                   THEN variationResults' = result.value /\ UNCHANGED contextResults
                   ELSE contextResults' = result.value /\ UNCHANGED variationResults
              /\ saveToHistory(StandardItem(c, result.value, t), c.hist)
              /\ appended' = <<StandardItem(c, result.value, t)>> \o appended
              /\ now' = t
              /\ lastOp' = "standardDone"
              /\ loading' = FALSE
              /\ UNCHANGED error
         ELSE /\ lastOp' = "standardFailed"
              /\ error' = GenericError
              /\ UNCHANGED <<variationResults, contextResults, history, store,
                             appended, now, loading>>
    /\ UNCHANGED <<mounted, mode, sourceLang, targetLang, selectedModel, inputText,
                   paraLeftText, paraRightText, isTypingLeft, isTypingRight,
                   isTranslatingPara, timers, typingTimeoutRef,
                   nEvents>>
    /\ UNCHANGED <<record0, pruned, lastKey, burst>>

\* the rest of handleStandardTranslate, when the endpoint answers call c
StandardResumed(c, result, t) ==
    /\ calls' = calls \ {c}
    /\ loading' = FALSE
    /\ IF result.ok
         THEN /\ IF c.kind = "variations"
                   THEN variationResults' = result.value /\ UNCHANGED contextResults
                   ELSE contextResults' = result.value /\ UNCHANGED variationResults
              /\ saveToHistory(StandardItem(c, result.value, t), c.hist)
              /\ appended' = <<StandardItem(c, result.value, t)>> \o appended
              /\ now' = t
              /\ lastOp' = "standardDone"
              /\ UNCHANGED error
         ELSE /\ lastOp' = "standardFailed"
              /\ error' = GenericError
              /\ UNCHANGED <<variationResults, contextResults, history, store,
                             appended, now>>
    /\ UNCHANGED <<mounted, mode, sourceLang, targetLang, selectedModel, inputText,
                   paraLeftText, paraRightText, isTypingLeft, isTypingRight,
                   isTranslatingPara, timers, typingTimeoutRef,
                   nEvents>>
    /\ UNCHANGED <<record0, pruned, lastKey, burst>>

VariationsDone(c) ==
    /\ c.kind = "variations"
    /\ \E answer \in VariationAnswers, t \in Readings :
          StandardResumed(c, generateVariations(answer), t)

ContextDone(c) ==
    /\ c.kind = "context"
    /\ \E answer \in ContextAnswers, t \in Readings :
          StandardResumed(c, generateContextExamples(answer), t)

(* ------------------------------------------------------------------ *)
(* Paraphrase synchronizer                                             *)
(* ------------------------------------------------------------------ *)
Direction(side) == IF side = "left" THEN "leftToRight" ELSE "rightToLeft"

\* a handler that never calls clearTimeout
ClearedNothing(ts, ref) == ts

\* clearTimeout(typingTimeoutRef.current), when the ref holds a handle
Cleared(ts, ref) == IF ref = Null THEN ts ELSE {t \in ts : t.h # ref.h}

\* a timer whose callback reads the pane's state instead of the event's text
NewTimerStaleText(text, side) ==
    [h |-> nEvents + 1,
     text |-> IF side = "left" THEN paraLeftText ELSE paraRightText,
     direction |-> Direction(side),
     sourceLang |-> sourceLang, targetLang |-> targetLang,
     selectedModel |-> selectedModel, hist |-> history]

\* setTimeout(() => performParaphraseTranslation(text, direction), 500), created
\* in the current render
NewTimer(text, side) ==
    [h |-> nEvents + 1, text |-> text, direction |-> Direction(side),
     sourceLang |-> sourceLang, targetLang |-> targetLang,
     selectedModel |-> selectedModel, hist |-> history]

handleParaInputChange(text, side) ==
    /\ mounted
    /\ mode = PARAPHRASE
    /\ nEvents < MaxEvents
    /\ text # (IF side = "left" THEN paraLeftText ELSE paraRightText)
    /\ nEvents' = nEvents + 1
    /\ timers' = Cleared(timers, typingTimeoutRef) \cup {NewTimer(text, side)}
    /\ typingTimeoutRef' = [kind |-> "handle", h |-> nEvents + 1]
    /\ lastKey' = [h |-> nEvents + 1, text |-> text, side |-> side]
    /\ burst' = IF timers = {} THEN 1 ELSE burst + 1
    /\ IF side = "left"
         THEN /\ paraLeftText' = text
              /\ isTypingLeft' = TRUE
              /\ isTypingRight' = FALSE
              /\ UNCHANGED paraRightText
         ELSE /\ paraRightText' = text
              /\ isTypingRight' = TRUE
              /\ isTypingLeft' = FALSE
              /\ UNCHANGED paraLeftText
    /\ lastOp' = "key"
    /\ UNCHANGED <<mounted, mode, sourceLang, targetLang, selectedModel, inputText,
                   loading, variationResults, contextResults, isTranslatingPara, error,
                   history, store, now, calls>>
    /\ UNCHANGED <<record0, appended, pruned>>

\* an expiry that leaves the timer armed, as an interval would
TimerFiresKeepsTimer(t) ==
    /\ t \in timers
    /\ UNCHANGED timers
    /\ IF Trim(t.text) = Empty
         THEN /\ IF t.direction = "leftToRight"
                   THEN paraRightText' = Empty /\ UNCHANGED paraLeftText
                   ELSE paraLeftText' = Empty /\ UNCHANGED paraRightText
              /\ lastOp' = "timerBlank"
              /\ UNCHANGED <<isTranslatingPara, calls>>
         ELSE /\ isTranslatingPara' = TRUE
              /\ calls' = calls \cup
                   {[cid |-> t.h, kind |-> "translate",
                     text |-> t.text, side |-> t.direction,
                     sourceLang |-> t.sourceLang, targetLang |-> t.targetLang,
                     selectedModel |-> t.selectedModel, hist |-> t.hist]}
              /\ lastOp' = "timerCall"
              /\ UNCHANGED <<paraLeftText, paraRightText>>
    /\ UNCHANGED <<mounted, mode, sourceLang, targetLang, selectedModel, inputText,
                   loading, variationResults, contextResults, isTypingLeft,
                   isTypingRight, error, history, store, now, typingTimeoutRef,
                   nEvents>>
    /\ UNCHANGED <<record0, appended, pruned, lastKey, burst>>

\* the timer's 500 ms elapse: performParaphraseTranslation up to its await
TimerFires(t) ==
    /\ t \in timers
    /\ timers' = timers \ {t}
    /\ IF Trim(t.text) = Empty
         THEN /\ IF t.direction = "leftToRight"
                   THEN paraRightText' = Empty /\ UNCHANGED paraLeftText
                   ELSE paraLeftText' = Empty /\ UNCHANGED paraRightText
              /\ lastOp' = "timerBlank"
              /\ UNCHANGED <<isTranslatingPara, calls>>
         ELSE /\ isTranslatingPara' = TRUE
              /\ calls' = calls \cup
                   {[cid |-> t.h, kind |-> "translate",
                     text |-> t.text, side |-> t.direction,
                     sourceLang |-> t.sourceLang, targetLang |-> t.targetLang,
                     selectedModel |-> t.selectedModel, hist |-> t.hist]}
              /\ lastOp' = "timerCall"
              /\ UNCHANGED <<paraLeftText, paraRightText>>
    /\ UNCHANGED <<mounted, mode, sourceLang, targetLang, selectedModel, inputText,
                   loading, variationResults, contextResults, isTypingLeft,
                   isTypingRight, error, history, store, now, typingTimeoutRef,
                   nEvents>>
    /\ UNCHANGED <<record0, appended, pruned, lastKey, burst>>

\* the item performParaphraseTranslation saves at time t for call c and its translation
TranslateItem(c, translated, t) ==
    ParaphraseItem(t, c.sourceLang, c.targetLang, c.text, c.selectedModel,
                   c.side, translated)

\* a completion without the finally block: the flags are reset on success only
TranslateResumedNoFinally(c, result, t) ==
    /\ calls' = calls \ {c}
    /\ IF result.ok
         THEN /\ IF c.side = "leftToRight"
                   THEN paraRightText' = result.value /\ UNCHANGED paraLeftText
                   ELSE paraLeftText' = result.value /\ UNCHANGED paraRightText
              /\ saveToHistory(TranslateItem(c, result.value, t), c.hist)
              /\ appended' = <<TranslateItem(c, result.value, t)>> \o appended
              /\ now' = t
              /\ lastOp' = "translateDone"
              /\ isTranslatingPara' = FALSE
              /\ isTypingLeft' = FALSE
              /\ isTypingRight' = FALSE
         ELSE /\ lastOp' = "translateFailed"
              /\ UNCHANGED <<paraLeftText, paraRightText, history, store, appended,
                             now, isTranslatingPara, isTypingLeft, isTypingRight>>
    /\ UNCHANGED <<mounted, mode, sourceLang, targetLang, selectedModel, inputText,
                   loading, variationResults, contextResults, error, timers,
                   typingTimeoutRef, nEvents>>
    /\ UNCHANGED <<record0, pruned, lastKey, burst>>

\* a completion guarded by a generation counter: the result of a call that is not
\* the last keystroke's is discarded
TranslateResumedDiscardsStale(c, result, t) ==
    /\ calls' = calls \ {c}
    /\ isTranslatingPara' = FALSE
    /\ isTypingLeft' = FALSE
    /\ isTypingRight' = FALSE
    /\ IF result.ok /\ c.cid = lastKey.h /\ mode = PARAPHRASE
         THEN /\ IF c.side = "leftToRight"
                   THEN paraRightText' = result.value /\ UNCHANGED paraLeftText
                   ELSE paraLeftText' = result.value /\ UNCHANGED paraRightText
              /\ saveToHistory(TranslateItem(c, result.value, t), c.hist)
              /\ appended' = <<TranslateItem(c, result.value, t)>> \o appended
              /\ now' = t
              /\ lastOp' = "translateDone"
         ELSE /\ lastOp' = IF result.ok THEN "translateDone" ELSE "translateFailed"
              /\ UNCHANGED <<paraLeftText, paraRightText, history, store, appended, now>>
    /\ UNCHANGED <<mounted, mode, sourceLang, targetLang, selectedModel, inputText,
                   loading, variationResults, contextResults, error, timers,
                   typingTimeoutRef, nEvents>>
    /\ UNCHANGED <<record0, pruned, lastKey, burst>>

\* the rest of performParaphraseTranslation, when the endpoint answers call c
TranslateResumed(c, result, t) ==
    /\ calls' = calls \ {c}
    /\ isTranslatingPara' = FALSE
    /\ isTypingLeft' = FALSE
    /\ isTypingRight' = FALSE
    /\ IF result.ok
         THEN /\ IF c.side = "leftToRight"
                   THEN paraRightText' = result.value /\ UNCHANGED paraLeftText
                   ELSE paraLeftText' = result.value /\ UNCHANGED paraRightText
              /\ saveToHistory(TranslateItem(c, result.value, t), c.hist)
              /\ appended' = <<TranslateItem(c, result.value, t)>> \o appended
              /\ now' = t
              /\ lastOp' = "translateDone"
         ELSE /\ lastOp' = "translateFailed"
              /\ UNCHANGED <<paraLeftText, paraRightText, history, store, appended, now>>
    /\ UNCHANGED <<mounted, mode, sourceLang, targetLang, selectedModel, inputText,
                   loading, variationResults, contextResults, error, timers,
                   typingTimeoutRef, nEvents>>
    /\ UNCHANGED <<record0, pruned, lastKey, burst>>

TranslateDone(c) ==
    /\ c.kind = "translate"
    /\ \E answer \in TranslateAnswers, t \in Readings :
          TranslateResumed(c, simpleTranslate(answer), t)

\* the Rephrase button of a pane: disabled={isTranslatingPara || !paneText}
handleSingleSideRephrase(side) ==
    /\ mounted
    /\ mode = PARAPHRASE
    /\ ~isTranslatingPara
    /\ nEvents < MaxEvents
    /\ nEvents' = nEvents + 1
    /\ (IF side = "left" THEN paraLeftText ELSE paraRightText) # Empty
    /\ LET textToRephrase == IF side = "left" THEN paraLeftText ELSE paraRightText
       IN  IF Trim(textToRephrase) = Empty
             THEN UNCHANGED <<isTranslatingPara, calls>>
             ELSE /\ isTranslatingPara' = TRUE
                  /\ calls' = calls \cup
                       {[cid |-> nEvents + 1, kind |-> "rephrase",
                         text |-> textToRephrase, side |-> side,
                         sourceLang |-> sourceLang, targetLang |-> targetLang,
                         selectedModel |-> selectedModel, hist |-> history]}
    /\ lastOp' = "rephrase"
    /\ UNCHANGED <<mounted, mode, sourceLang, targetLang, selectedModel, inputText,
                   loading, variationResults, contextResults, paraLeftText,
                   paraRightText, isTypingLeft, isTypingRight, error, history, store,
                   now, timers, typingTimeoutRef>>
    /\ UNCHANGED <<record0, appended, pruned, lastKey, burst>>

\* a completion that also empties the opposite pane
RephraseResumedPropagates(c, result) ==
    /\ calls' = calls \ {c}
    /\ isTranslatingPara' = FALSE
    /\ IF result.ok
         THEN /\ IF c.side = "left"
                   THEN paraLeftText' = result.value /\ paraRightText' = Empty
                   ELSE paraRightText' = result.value /\ paraLeftText' = Empty
              /\ lastOp' = "rephraseDone"
         ELSE /\ lastOp' = "rephraseFailed"
              /\ UNCHANGED <<paraLeftText, paraRightText>>
    /\ UNCHANGED <<mounted, mode, sourceLang, targetLang, selectedModel, inputText,
                   loading, variationResults, contextResults, isTypingLeft,
                   isTypingRight, error, history, store, now, timers,
                   typingTimeoutRef, nEvents>>
    /\ UNCHANGED <<record0, appended, pruned, lastKey, burst>>

RephraseResumed(c, result) ==
    /\ calls' = calls \ {c}
    /\ isTranslatingPara' = FALSE
    /\ IF result.ok
         THEN /\ IF c.side = "left"
                   THEN paraLeftText' = result.value /\ UNCHANGED paraRightText
                   ELSE paraRightText' = result.value /\ UNCHANGED paraLeftText
              /\ lastOp' = "rephraseDone"
         ELSE /\ lastOp' = "rephraseFailed"
              /\ UNCHANGED <<paraLeftText, paraRightText>>
    /\ UNCHANGED <<mounted, mode, sourceLang, targetLang, selectedModel, inputText,
                   loading, variationResults, contextResults, isTypingLeft,
                   isTypingRight, error, history, store, now, timers,
                   typingTimeoutRef, nEvents>>
    /\ UNCHANGED <<record0, appended, pruned, lastKey, burst>>

RephraseDone(c) ==
    /\ c.kind = "rephrase"
    /\ \E answer \in RephraseAnswers : RephraseResumed(c, rephraseText(answer))

(* ------------------------------------------------------------------ *)
(* Specification                                                       *)
(* ------------------------------------------------------------------ *)
Next ==
    \/ LoadHistory
    \/ \E id \in DeleteIds : handleDeleteHistoryItem(id)
    \/ \E confirmed \in BOOLEAN : handleClearHistory(confirmed)
    \/ \E item \in RestoreItems : handleRestoreHistoryItem(item)
    \/ \E l \in LangCodes \ {sourceLang} : setSourceLang(l)
    \/ \E l \in LangCodes \ {targetLang} : setTargetLang(l)
    \/ \E m \in ModelType \ {selectedModel} : setSelectedModel(m)
    \/ \E t \in InputTexts \ {inputText} : setInputText(t)
    \/ \E m \in AppMode : SwitchMode(m)
    \/ handleSwapLanguages
    \/ ClickTranslate
    \/ handleKeyDownStandard
    \/ \E c \in calls : VariationsDone(c)
    \/ \E c \in calls : ContextDone(c)
    \/ \E text \in KeyTexts, side \in {"left", "right"} : handleParaInputChange(text, side)
    \/ \E t \in timers : TimerFires(t)
    \/ \E c \in calls : TranslateDone(c)
    \/ \E side \in {"left", "right"} : handleSingleSideRephrase(side)
    \/ \E c \in calls : RephraseDone(c)

Spec == Init /\ [][Next]_vars

\* the same component, started on a log filled to the cap
SpecFull == InitFull /\ [][Next]_vars

\* the endpoint answers, or fails, a call that is awaited
Answered ==
    \E c \in calls :
        VariationsDone(c) \/ ContextDone(c) \/ TranslateDone(c) \/ RephraseDone(c)

\* a first run: no record in localStorage
InitFirstRun == InitFrom({Null})

\* the component with an endpoint that eventually answers or fails every call;
\* every step of Answered removes a call, so calls is its subscript
SpecAnswered == InitFirstRun /\ [][Next]_vars /\ WF_calls(Answered)


(* ------------------------------------------------------------------ *)
(* Properties                                                          *)
(* ------------------------------------------------------------------ *)
\* what a load of the persisted record yields now
Persisted == LoadOf(store)

\* the log at the start of the session
Loaded0 == LoadOf(record0)

\* a text that is empty or whitespace only
IsBlank(s) == \A i \in DOMAIN s : s[i] = SP

\* the text of the pane opposite to the one typed in
Opposite(side) == IF side = "left" THEN paraRightText ELSE paraLeftText

\* the same, after the step
OppositeAfter(side) == IF side = "left" THEN paraRightText' ELSE paraLeftText'

\* the calls a step issues
Issued == calls' \ calls

\* C1: the in-memory history and the persisted record each hold at most 50
\* entries in every reachable state.
C1_HistoryCapped ==
    /\ Len(history) <= HistoryCap
    /\ Len(Persisted) <= HistoryCap

\* an append onto a full log has run
C1_Witness ==
    /\ lastOp \in {"standardDone", "translateDone"}
    /\ Len(Loaded0) = HistoryCap
    /\ ~pruned
    /\ Len(history) = HistoryCap
    /\ history[1].timestamp >= FirstNow

\* C2: as long as nothing is removed or cleared, a load yields the appended
\* entries in reverse append order, the last appended first, in front of the
\* log the session started from, cut to the 50 most recent.
C2_AppendsInOrder ==
    (appended # <<>> /\ ~pruned) =>
        Persisted = SliceFromStart(appended \o Loaded0, HistoryCap)

\* C3: remove(id) filters exactly the entries with that id out of the log and
\* keeps the others in order; a following load has no entry with that id; an id
\* that is not in the log leaves the list unchanged.
C3_RemoveFilters ==
    [][\A id \in DeleteIds :
         handleDeleteHistoryItem(id) =>
            LET Kept(e) == e.id # id
            IN  /\ history' = SelectSeq(history, Kept)
                /\ Persisted' = history'
                /\ \A i \in DOMAIN Persisted' : Persisted'[i].id # id
                /\ (\A i \in DOMAIN history : history[i].id # id) => history' = history
      ]_vars

\* a listed entry of the starting log has been removed
C3_Witness ==
    /\ lastOp = "delete"
    /\ appended = <<>>
    /\ Len(Loaded0) = OldLen
    /\ Len(history) = OldLen - 1

\* C4: after a confirmed clear the in-memory history is empty, the persisted
\* record is removed and a load yields the empty sequence.
C4_ClearEmpties ==
    lastOp = "clear" => (history = <<>> /\ store = Null /\ Persisted = <<>>)

\* a non-empty log with a persisted record has been cleared
C4_Witness == lastOp = "clear" /\ Loaded0 # <<>> /\ store = Null

\* C5: once mounted, the list a load would read from the persisted record is the
\* in-memory history list, entry for entry.
C5_StoreMirrorsMemory == mounted => Persisted = history

\* an append and then a remove have run and left a non-empty log
C5_Witness ==
    /\ lastOp = "delete"
    /\ appended # <<>>
    /\ history # <<>>
    /\ store = JSONstringify(history)

\* the history operations, as offered to the user in the current state
C6_OperationsOffered ==
    /\ ENABLED (\E id \in DeleteIds : handleDeleteHistoryItem(id))
    /\ history # <<>> => ENABLED handleClearHistory(TRUE)
    /\ mode # PARAPHRASE => ENABLED handleKeyDownStandard
    /\ mode = PARAPHRASE =>
          ENABLED (\E text \in KeyTexts, side \in {"left", "right"} :
                      handleParaInputChange(text, side))
    /\ \A c \in calls :
          ENABLED (VariationsDone(c) \/ ContextDone(c) \/ TranslateDone(c)
                      \/ RephraseDone(c))

\* C6: with an unreadable record, or none, the load leaves an empty history,
\* the mount completes, and the operations stay available afterwards.
C6_LoadRecovers ==
    (record0 \in {Garbage, Null}) =>
        /\ lastOp = "load" => (mounted /\ history = <<>>)
        /\ lastOp # "init" => mounted
        /\ (mounted /\ nEvents < MaxEvents) => C6_OperationsOffered

\* after an unreadable record, a generation has appended its entry
C6_Witness ==
    /\ record0 = Garbage
    /\ lastOp = "standardDone"
    /\ Len(history) = 1
    /\ Persisted = history


\* the step is the expiry of the debounce timer t
Expires(t) == t \in timers /\ TimerFires(t)

\* the step issues exactly one translation call, for the last keystroke
IssuesOneForLastKey ==
    \E c \in Issued :
        /\ calls' = calls \cup {c}
        /\ c.kind = "translate"
        /\ c.text = lastKey.text
        /\ c.side = Direction(lastKey.side)

\* C7 as stated: a burst of keystrokes issues no call while it lasts, and the
\* expiry that ends it issues exactly one translation call, with the text of the
\* last keystroke, from the typed pane to the opposite one.
C7_OneCallPerBurst ==
    [][/\ lastOp' = "key" => calls' = calls
       /\ \A t \in timers : Expires(t) => IssuesOneForLastKey
      ]_vars

\* C7 amended: the same, for a burst whose last keystroke leaves a text that is
\* not blank; when it is blank the expiry issues no call. The expiring timer is
\* the last keystroke's and no other timer of the burst is left armed.
C7_OneCallPerNonBlankBurst ==
    [][/\ lastOp' = "key" => calls' = calls
       /\ \A t \in timers : Expires(t) =>
             /\ t.h = lastKey.h
             /\ timers' = {}
             /\ IF IsBlank(lastKey.text) THEN calls' = calls ELSE IssuesOneForLastKey
      ]_vars

\* the timer of a burst of two or more keystrokes has expired and issued its call
C7_Witness ==
    /\ lastOp = "timerCall"
    /\ burst >= 2
    /\ \E c \in calls : c.cid = lastKey.h /\ c.text = lastKey.text

\* C8: at most one debounce timer is armed at any time, and it is the last
\* keystroke's; every translation call issued is for the last keystroke and uses
\* its side as source, so a timer cancelled by a keystroke never issues a call.
C8_SingleTimer ==
    /\ [](/\ Cardinality(timers) <= 1
          /\ \A t \in timers :
                t.h = lastKey.h /\ t.direction = Direction(lastKey.side))
    /\ [][\A c \in Issued :
             c.kind = "translate" =>
                c.cid = lastKey.h /\ c.side = Direction(lastKey.side)]_vars

\* a keystroke on the right pane has replaced the timer armed from the left pane
C8_Witness ==
    /\ record0 = Null
    /\ appended = <<>>
    /\ lastOp = "key"
    /\ burst = 2
    /\ lastKey.side = "right"
    /\ paraLeftText = <<"a">>
    /\ Cardinality(timers) = 1

\* C9 as stated: a keystroke that leaves its pane blank empties the opposite
\* pane in the same step, and issues no call.
C9_BlankClearsAtOnce ==
    [][(lastOp' = "key" /\ IsBlank(lastKey'.text)) =>
          (OppositeAfter(lastKey'.side) = Empty /\ calls' = calls)]_vars

\* C9 amended: a keystroke that leaves its pane blank leaves the opposite pane as
\* it is and arms the debounce timer; the opposite pane is emptied in the step
\* in which that timer expires; neither step issues a call.
C9_BlankClearsAtExpiry ==
    [][/\ (lastOp' = "key" /\ IsBlank(lastKey'.text)) =>
             /\ OppositeAfter(lastKey'.side) = Opposite(lastKey'.side)
             /\ calls' = calls
             /\ \E t \in timers' : t.h = lastKey'.h /\ t.text = lastKey'.text
       /\ \A t \in timers : (Expires(t) /\ IsBlank(t.text)) =>
             /\ OppositeAfter(lastKey.side) = Empty
             /\ calls' = calls
             /\ isTranslatingPara' = isTranslatingPara
      ]_vars

\* after a translation filled the right pane, a blank left pane emptied it when
\* the timer expired
C9_Witness ==
    /\ lastOp = "timerBlank"
    /\ lastKey.side = "left"
    /\ paraRightText = Empty
    /\ appended # <<>>
    /\ appended[1].mode = PARAPHRASE
    /\ appended[1].paraphraseResult.targetText # Empty

\* C10: in Paraphrase mode a swap exchanges the two languages and the two pane
\* texts, issues no call, leaves history, the persisted record and the debounce
\* timer untouched, and a second swap would restore languages and pane texts.
C10_SwapExchanges ==
    [][(lastOp' = "swap" /\ mode = PARAPHRASE) =>
          /\ sourceLang' = targetLang
          /\ targetLang' = sourceLang
          /\ paraLeftText' = paraRightText
          /\ paraRightText' = paraLeftText
          /\ mode' = mode
          /\ UNCHANGED <<calls, history, store, timers, typingTimeoutRef>>
          /\ SwappedLeft' = paraLeftText
          /\ SwappedRight' = paraRightText
      ]_vars

\* a swap in Paraphrase mode with different pane texts and an armed timer
C10_Witness ==
    /\ lastOp = "swap"
    /\ mode = PARAPHRASE
    /\ paraLeftText # paraRightText
    /\ sourceLang # targetLang
    /\ timers # {}

\* C11: when a debounce-triggered translation succeeds, the Paraphrase entry it
\* appends holds, as sourceText and targetText, the left and right pane texts as
\* they are once the call has completed, whatever happened while it was awaited.
C11_EntryHoldsPaneTexts ==
    [][lastOp' = "translateDone" =>
          /\ history' # <<>>
          /\ history'[1].mode = PARAPHRASE
          /\ history'[1].paraphraseResult.sourceText = paraLeftText'
          /\ history'[1].paraphraseResult.targetText = paraRightText'
      ]_vars

\* C12: when a debounce-triggered translation fails, both pane texts, the
\* history in memory, the persisted record and the error shown to the user stay
\* as they were, and the translating indicator is false afterwards.
C12_FailureIsSilent ==
    [][lastOp' = "translateFailed" =>
          /\ paraLeftText' = paraLeftText
          /\ paraRightText' = paraRightText
          /\ history' = history
          /\ store' = store
          /\ Persisted' = Persisted
          /\ error' = error
          /\ isTranslatingPara' = FALSE
      ]_vars

\* a translation has failed with text in a pane and a saved log
C12_Witness ==
    /\ lastOp = "translateFailed"
    /\ paraLeftText # Empty
    /\ history # <<>>
    /\ store # Null
    /\ ~isTranslatingPara

\* the other pane
Other(side) == IF side = "left" THEN "right" ELSE "left"

\* C13: a manual rephrase of one side issues one rephrase call and no
\* translation call; when the call succeeds that side's pane text becomes the
\* result, when it fails the pane keeps its text; the invocation and the
\* completion leave the opposite pane, the debounce timer, the languages, the
\* history and the persisted record as they were.
C13_RephraseTouchesOneSide ==
    [][/\ lastOp' = "rephrase" =>
             /\ \A c \in Issued : c.kind = "rephrase"
             /\ Cardinality(Issued) <= 1
             /\ UNCHANGED <<paraLeftText, paraRightText, timers, typingTimeoutRef,
                            sourceLang, targetLang, history, store>>
       /\ \A c \in calls, answer \in RephraseAnswers :
             (c.kind = "rephrase" /\ RephraseResumed(c, rephraseText(answer))) =>
                /\ Issued = {}
                /\ OppositeAfter(c.side) = Opposite(c.side)
                /\ OppositeAfter(Other(c.side)) =
                      IF answer.kind = "throw" THEN Opposite(Other(c.side))
                      ELSE rephraseText(answer).value
                /\ UNCHANGED <<timers, typingTimeoutRef, sourceLang, targetLang,
                               history, store>>
      ]_vars

\* a rephrase of the left pane has succeeded while the debounce timer was armed
C13_Witness ==
    /\ lastOp = "rephraseDone"
    /\ timers # {}
    /\ paraLeftText = <<"r">>
    /\ paraRightText = Empty

\* the list a manual generation call c gets from the endpoint's answer
ListResult(c, answer) ==
    IF c.kind = "variations" THEN generateVariations(answer)
    ELSE generateContextExamples(answer)

\* the answers the endpoint may give to a manual generation call c
ListAnswersOf(c) == IF c.kind = "variations" THEN VariationAnswers ELSE ContextAnswers

\* the mode a manual generation call c was requested in
RequestingMode(c) == IF c.kind = "variations" THEN VARIATIONS ELSE CONTEXT

\* entry e records the request c and the list res
RecordsRequest(e, c, res) ==
    /\ e.mode = RequestingMode(c)
    /\ e.inputText = c.text
    /\ e.sourceLang = c.sourceLang
    /\ e.targetLang = c.targetLang
    /\ e.modelType = c.selectedModel
    /\ IF c.kind = "variations" THEN e.variationResults = res
       ELSE e.contextResults = res

\* the step completes the manual generation call c with a list, and then the
\* result list of the requesting mode is that list and the first entry of the
\* history records the request and the list
SuccessShowsAndRecords(c, answer, t) ==
    (/\ c.kind \in {"variations", "context"}
     /\ ListResult(c, answer).ok
     /\ StandardResumed(c, ListResult(c, answer), t)) =>
        /\ IF c.kind = "variations"
             THEN variationResults' = ListResult(c, answer).value
             ELSE contextResults' = ListResult(c, answer).value
        /\ history' # <<>>
        /\ RecordsRequest(history'[1], c, ListResult(c, answer).value)

\* C14: when a manual generation succeeds with list R, the result list of the
\* requesting mode is R, and exactly one entry is appended to the history: the
\* new first entry records the requesting mode, the input text, languages and
\* model tier of the request and R, and the entries behind it are the history
\* as it was (cut to the cap), in memory and in the persisted record.
C14_SuccessAppendsOneEntry ==
    [][\A c \in calls : \A answer \in ListAnswersOf(c), t \in Readings :
          /\ SuccessShowsAndRecords(c, answer, t)
          /\ (/\ c.kind \in {"variations", "context"}
              /\ ListResult(c, answer).ok
              /\ StandardResumed(c, ListResult(c, answer), t)) =>
                 /\ Tail(history') = SliceFromStart(history, HistoryCap - 1)
                 /\ Persisted' = history'
      ]_vars

\* C15: when a manual generation call fails, the error shown is the generic
\* message, the history in memory and the persisted record are unchanged, the
\* input text, mode, languages and model tier are unchanged, and loading is
\* false afterwards.
C15_FailureReportsGenerically ==
    [][lastOp' = "standardFailed" =>
          /\ error' = "Something went wrong. Please try again."
          /\ history' = history
          /\ store' = store
          /\ Persisted' = Persisted
          /\ UNCHANGED <<inputText, mode, sourceLang, targetLang, selectedModel>>
          /\ loading' = FALSE
      ]_vars

\* a manual generation has failed, with an input text and a saved log
C15_Witness ==
    /\ lastOp = "standardFailed"
    /\ error = GenericError
    /\ Trim(inputText) # Empty
    /\ history # <<>>
    /\ ~loading

\* kinds of answer of the endpoint to a structured request
CallThrew(answer) == answer.kind = "throw"
TextMissing(answer) ==
    answer.kind = "response" /\ answer.text \in {Null, Str(<<>>)}
TextNotJSON(answer) == answer.kind = "response" /\ answer.text = Garbage
ParsedObject(answer) ==
    /\ answer.kind = "response"
    /\ answer.text.kind = "json"
    /\ answer.text.value.kind = "object"
LacksField(answer, field) ==
    ParsedObject(answer) /\ field \notin DOMAIN answer.text.value
HasArray(answer, field) ==
    /\ ParsedObject(answer)
    /\ field \in DOMAIN answer.text.value
    /\ answer.text.value[field].kind = "array"

\* what the claim says the client returns for the answer, where it says it
ClientOutcomeAsStated(outcome, answer, field) ==
    /\ (CallThrew(answer) \/ TextNotJSON(answer)) => ~outcome.ok
    /\ (TextMissing(answer) \/ LacksField(answer, field)) =>
          (outcome.ok /\ outcome.value = <<>>)
    /\ HasArray(answer, field) =>
          /\ outcome.ok
          /\ outcome.value = answer.text.value[field].items

\* C16: generateVariations and generateContextExamples reject when the endpoint
\* call throws or the response text is not JSON, return the empty sequence when
\* the response text is missing or empty or the parsed object has no
\* variations / examples field, and return the field's array, in order, when
\* it is there; the awaiting handler fails or shows the list accordingly.
C16_ClientParsing ==
    [][\A c \in calls : \A answer \in ListAnswersOf(c), t \in Readings :
          (/\ c.kind \in {"variations", "context"}
           /\ (lastOp' = "standardFailed") = (~ListResult(c, answer).ok)
           /\ StandardResumed(c, ListResult(c, answer), t)) =>
              /\ ClientOutcomeAsStated(generateVariations(answer), answer, "variations")
              /\ ClientOutcomeAsStated(generateContextExamples(answer), answer, "examples")
              /\ (CallThrew(answer) \/ TextNotJSON(answer)) =>
                    lastOp' = "standardFailed"
              /\ (TextMissing(answer)
                    \/ LacksField(answer, IF c.kind = "variations" THEN "variations"
                                          ELSE "examples")) =>
                    /\ lastOp' = "standardDone"
                    /\ IF c.kind = "variations" THEN variationResults' = <<>>
                       ELSE contextResults' = <<>>
      ]_vars

\* a generation whose response had no text has completed with an empty list
C16_Witness ==
    /\ lastOp = "standardDone"
    /\ error = Null
    /\ history # <<>>
    /\ history[1].mode = VARIATIONS
    /\ history[1].variationResults = <<>>
    /\ history[1].timestamp >= FirstNow

\* call c, had it been issued with model tier m
WithTier(c, m) == [c EXCEPT !.selectedModel = m]

\* C17: the two model tiers map to two different model identifiers, and for
\* every call in flight, had it been issued with the other tier, the request
\* would carry the same instruction text and the same response-shape
\* constraint, differ only in the model identifier, and every answer would be
\* handled to the same outcome.
C17_TierOnlySelectsModel ==
    /\ Cardinality({getModelName(m) : m \in ModelType}) = 2
    /\ \A c \in calls : \A tone \in ParaphraseTone :
          /\ RequestOf(c, tone).model = getModelName(c.selectedModel)
          /\ \A m \in ModelType \ {c.selectedModel} :
                /\ RequestOf(WithTier(c, m), tone).contents = RequestOf(c, tone).contents
                /\ RequestOf(WithTier(c, m), tone).config = RequestOf(c, tone).config
                /\ RequestOf(WithTier(c, m), tone).model # RequestOf(c, tone).model
                /\ \A answer \in AnswersOf(c) :
                      OutcomeOf(WithTier(c, m), answer) = OutcomeOf(c, answer)

\* a call issued with the accurate tier is awaiting its answer
C17_Witness ==
    \E c \in calls :
        /\ c.selectedModel = "accurate"
        /\ RequestOf(c, "Standard").model = "gemini-3-pro-preview"

\* the handler invocations that may call the client
InvocationOps == {"clickTranslate", "keyDownStandard", "timerCall", "timerBlank",
                  "rephrase"}

\* the steps in which an awaited call is answered
CompletionOps == {"standardDone", "standardFailed", "translateDone",
                  "translateFailed", "rephraseDone", "rephraseFailed"}

\* C18: a handler invocation issues at most one call to the endpoint (exactly
\* one when the debounce timer expires on a text that is not blank); the step
\* that answers a call answers exactly one and issues none, so a failed call is
\* not retried; and a call that throws is rejected to its caller by each of the
\* four client functions.
C18_OneCallNoRetry ==
    [][/\ Cardinality(Issued) <= 1
       /\ Issued # {} => lastOp' \in InvocationOps
       /\ lastOp' = "timerCall" =>
             (Cardinality(Issued) = 1 /\ calls' = calls \cup Issued)
       /\ lastOp' \in CompletionOps =>
             /\ Issued = {}
             /\ Cardinality(calls \ calls') = 1
             /\ \A c \in calls \ calls' : \A answer \in AnswersOf(c) :
                   CallThrew(answer) => ~OutcomeOf(c, answer).ok
             /\ \A answer \in TranslateAnswers \cup RephraseAnswers
                                \cup VariationAnswers \cup ContextAnswers :
                   CallThrew(answer) =>
                      /\ ~generateVariations(answer).ok
                      /\ ~generateContextExamples(answer).ok
                      /\ ~simpleTranslate(answer).ok
                      /\ ~rephraseText(answer).ok
      ]_vars

\* a generation call has failed and nothing is awaited afterwards
C18_Witness ==
    /\ lastOp = "standardFailed"
    /\ calls = {}
    /\ nEvents = MaxEvents

\* C19: with an endpoint that eventually answers or fails every call, loading,
\* once true, eventually is false again, and so is the paraphrase translating
\* indicator; loading goes back to false only in the step that completes a
\* manual generation, which shows its result list or sets the error.
C19_LoadingEnds ==
    /\ loading ~> ~loading
    /\ isTranslatingPara ~> ~isTranslatingPara
    /\ [][(loading /\ ~loading') =>
             /\ lastOp' \in {"standardDone", "standardFailed"}
             /\ lastOp' = "standardFailed" => error' = GenericError
             /\ lastOp' = "standardDone" =>
                   \E c \in calls \ calls' :
                      IF c.kind = "variations"
                        THEN variationResults' = history'[1].variationResults
                        ELSE contextResults' = history'[1].contextResults
         ]_vars

\* a manual generation that failed has left loading false and the error set
C19_Witness ==
    /\ lastOp = "standardFailed"
    /\ ~loading
    /\ error = GenericError
    /\ variationResults = <<>>
    /\ contextResults = <<>>

\* C20: restoring a history item leaves the history in memory and the
\* persisted record unchanged, and copies into the editing state the item's
\* mode, languages, its model tier when it has one (the tier stays as it is
\* when it has none), and, by mode, the input text and the result list of a
\* Variations or Context item (the other list is emptied) or the two pane texts
\* of a Paraphrase item.
C20_RestoreCopies ==
    [][\A item \in RestoreItems :
          (lastOp' = "restore" /\ handleRestoreHistoryItem(item)) =>
             /\ history' = history
             /\ store' = store
             /\ Persisted' = Persisted
             /\ mode' = item.mode
             /\ sourceLang' = item.sourceLang
             /\ targetLang' = item.targetLang
             /\ selectedModel' = IF "modelType" \in DOMAIN item
                                   THEN item.modelType ELSE selectedModel
             /\ item.mode = VARIATIONS =>
                   /\ inputText' = item.inputText
                   /\ variationResults' = item.variationResults
                   /\ contextResults' = <<>>
             /\ item.mode = CONTEXT =>
                   /\ inputText' = item.inputText
                   /\ contextResults' = item.contextResults
                   /\ variationResults' = <<>>
             /\ item.mode = PARAPHRASE =>
                   /\ paraLeftText' = item.paraphraseResult.sourceText
                   /\ paraRightText' = item.paraphraseResult.targetText
      ]_vars

\* an item without a model tier has been restored after the accurate tier was
\* selected: its input text and list are shown and the tier is still accurate
C20_Witness ==
    /\ lastOp = "restore"
    /\ mode = VARIATIONS
    /\ selectedModel = "accurate"
    /\ inputText = <<"c">>
    /\ variationResults = <<"v1", "v2">>
    /\ contextResults = <<>>
    /\ history = Loaded0
    /\ Len(history) = OldLen

\* the pane a translation of the given direction writes, after the step
DestinationAfter(direction) ==
    IF direction = "leftToRight" THEN paraRightText' ELSE paraLeftText'

\* C21: a translation call, once issued, stays awaited until its own answer
\* arrives, whatever else happens; its completion is always possible; and when
\* it succeeds, the pane opposite to the one it was typed in holds the
\* translated text afterwards, whatever happened to either pane meanwhile.
C21_NeverCancelled ==
    /\ [](\A c \in calls : c.kind = "translate" => ENABLED TranslateDone(c))
    /\ [][/\ \A c \in calls \ calls' :
                c.kind = "translate" =>
                   lastOp' \in {"translateDone", "translateFailed"}
          /\ \A c \in calls \ calls' :
                (c.kind = "translate" /\ lastOp' = "translateDone") =>
                   /\ \E answer \in TranslateAnswers :
                         /\ simpleTranslate(answer).ok
                         /\ DestinationAfter(c.side) = simpleTranslate(answer).value
                   /\ appended' # appended
                   /\ appended'[1].inputText = c.text
                   /\ DestinationAfter(c.side) =
                         IF c.side = "leftToRight"
                           THEN appended'[1].paraphraseResult.targetText
                           ELSE appended'[1].paraphraseResult.sourceText
         ]_vars

\* a translation has written the right pane after the user left Paraphrase mode
C21_Witness ==
    /\ lastOp = "translateDone"
    /\ mode # PARAPHRASE
    /\ paraLeftText = Empty
    /\ paraRightText = <<"t">>

\* the entries of log h have different ids
UniqueIds(h) == \A i, j \in DOMAIN h : i # j => h[i].id # h[j].id

\* C22: in every reachable state no two entries of the history, in memory or in
\* the persisted record, have the same id.
C22_IdsUnique == UniqueIds(history) /\ UniqueIds(Persisted)

\* the timestamps of log h do not increase from its head to its tail
NewestFirst(h) ==
    \A i, j \in DOMAIN h : i < j => h[i].timestamp >= h[j].timestamp

\* C23: in every reachable state the history is ordered newest first, in memory
\* and in the persisted record, with a clock that never goes back and a record
\* that starts ordered.
C23_NewestFirst == NewestFirst(history) /\ NewestFirst(Persisted)

\* two entries appended in this session are in front of the stored log
C23_Witness ==
    /\ Len(history) = OldLen + 2
    /\ Len(appended) = 2
    /\ history[1] = appended[1]
    /\ history[2] = appended[2]
    /\ history[3].timestamp < FirstNow
    /\ Persisted = history

\* the steps that write a pane text without a keystroke
ProgramWrites == {"translateDone", "rephraseDone", "swap", "restore", "switchMode",
                  "timerBlank"}

\* C24: a timer is armed only by a keystroke, one per keystroke, with a handle
\* no timer had before; a translation call is issued only by the expiry of a
\* timer, which is consumed by it and gives the call its handle, so each
\* keystroke causes at most one translation call; and a step that writes a
\* pane from a translation, a rephrase, a swap, a restore or a mode switch arms
\* no timer and issues no translation call.
C24_NoFeedbackLoop ==
    /\ [](\A c \in calls : c.kind = "translate" =>
             /\ c.cid <= nEvents
             /\ \A t \in timers : t.h # c.cid)
    /\ [][/\ timers' \ timers # {} =>
                /\ lastOp' = "key"
                /\ nEvents' = nEvents + 1
                /\ \E t \in timers' : timers' \ timers = {t} /\ t.h = nEvents'
          /\ \A c \in Issued : c.kind = "translate" =>
                /\ lastOp' = "timerCall"
                /\ nEvents' = nEvents
                /\ \E t \in timers : timers' = timers \ {t} /\ c.cid = t.h
                /\ Cardinality(Issued) = 1
          /\ lastOp' \in ProgramWrites =>
                /\ timers' \subseteq timers
                /\ \A c \in Issued : c.kind # "translate"
                /\ typingTimeoutRef' = typingTimeoutRef
         ]_vars

\* a translation has written the right pane and nothing is armed or awaited
C24_Witness ==
    /\ lastOp = "translateDone"
    /\ mode = PARAPHRASE
    /\ paraRightText = <<"t">>
    /\ paraLeftText = lastKey.text
    /\ timers = {}
    /\ calls = {}

\* the entries of log h
Entries(h) == {h[i] : i \in DOMAIN h}

\* C25: an entry of the stored log that has left the log (which, once the log
\* is loaded, happens only by a remove or a confirmed clear) is in no later
\* state of the history, in memory or in the persisted record.
C25_DeletedStaysDeleted ==
    [][mounted =>
          \A e \in Entries(Loaded0) :
              e \notin Entries(history) =>
                 (e \notin Entries(history') /\ e \notin Entries(Persisted'))
      ]_vars

\* C26: as long as nothing is removed or cleared and the cap is not reached,
\* every entry a successful operation has appended is in the history, in
\* memory and in the persisted record: the entry of a completion is not lost
\* by that of another operation completing after it.
C26_NoAppendLost ==
    (~pruned /\ Len(Loaded0) + Len(appended) <= HistoryCap) =>
        /\ Entries(appended) \subseteq Entries(history)
        /\ Entries(appended) \subseteq Entries(Persisted)

\* the translation and rephrase calls awaited
ParaCalls == {c \in calls : c.kind \in {"translate", "rephrase"}}

\* C27: the paraphrase busy flag is true in every state in which a translation
\* or rephrase call is awaited.
C27_BusyWhileAwaited == ParaCalls # {} => isTranslatingPara

\* the manual generation calls awaited
ManualCalls == {c \in calls : c.kind \in {"variations", "context"}}

\* C28: at most one manual generation call is awaited at any time, and no step
\* taken while loading is true issues a manual generation call.
C28_OneManualCall ==
    /\ [](Cardinality(ManualCalls) <= 1)
    /\ [][loading => \A c \in Issued : c.kind \notin {"variations", "context"}]_vars

\* C29: a mode switch leaves both pane texts and both result lists empty, and
\* right after it no step of the program (one that is not a user event: the
\* expiry of a timer armed before the switch, the completion of a call issued
\* before it) writes a pane, a result list or a history entry.
C29_SwitchLeavesEmpty ==
    [][/\ lastOp' = "switchMode" =>
             /\ paraLeftText' = Empty
             /\ paraRightText' = Empty
             /\ variationResults' = <<>>
             /\ contextResults' = <<>>
       /\ (lastOp = "switchMode" /\ nEvents' = nEvents) =>
             UNCHANGED <<paraLeftText, paraRightText, variationResults,
                         contextResults, history, store>>
      ]_vars

\* C30: when a debounce-triggered translation completes with success, the call
\* it completes was requested from the language now selected for the pane it
\* was typed in to the language now selected for the pane it writes (sourceLang
\* is the left pane's language, targetLang the right pane's), and the entry it
\* appends records the languages now selected.
C30_CurrentLanguages ==
    [][\A c \in calls \ calls' :
          (c.kind = "translate" /\ lastOp' = "translateDone") =>
             /\ RequestOf(c, "Standard").contents =
                   IF c.side = "leftToRight"
                     THEN <<"translate", LanguageName(sourceLang'),
                            LanguageName(targetLang'), c.text>>
                     ELSE <<"translate", LanguageName(targetLang'),
                            LanguageName(sourceLang'), c.text>>
             /\ history'[1].sourceLang = sourceLang'
             /\ history'[1].targetLang = targetLang'
      ]_vars

====
